---- MODULE Spec2Model ----
(***************************************************************************)
(* CodeRefine AI (src/app.py): the completion client, the review parser,   *)
(* the filename resolution of the two save handlers, the file persister,   *)
(* the chat handler and the page navigation of the Gradio shell.           *)
(*                                                                         *)
(* A Python str is a sequence of one-character strings.  The cross mark    *)
(* U+274C that opens the failure marker is the single character "U+274C".  *)
(* A path never holds a directory separator: every file is written in the  *)
(* working directory, and the write itself is taken to succeed.  The      *)
(* best-effort launch of the editor after a save changes no state.         *)
(***************************************************************************)
EXTENDS Naturals, Sequences, FiniteSets

VARIABLES
    home_page, analysis_page, converter_page, chatbot_page, \* visible flags
    analysis_card, converter_card, chatbot_card,             \* elem_classes
    chatbot, msg,                                            \* chat page
    turns,       \* every chat turn so far: the message and the call's outcome
    review_output, formatted_output, filename_edit, download_btn,
    converted, filename_edit2, download_btn2,
    fs,          \* the working directory: path -> content
    handler,     \* the handler that ran last, "" before the first
    inputs,      \* the component values that handler was called with
    calls,       \* the completion calls that handler made, in order
    saved,       \* the save_file call that handler made
    raised,      \* the handler ended in an unhandled exception
    runs         \* handler runs so far

pages == <<home_page, analysis_page, converter_page, chatbot_page>>
cards == <<analysis_card, converter_card, chatbot_card>>
chat == <<chatbot, msg, turns>>
outputs == <<review_output, formatted_output, filename_edit, download_btn,
             converted, filename_edit2, download_btn2>>
trace == <<handler, inputs, calls, saved, raised, runs>>
vars == <<pages, cards, chat, outputs, fs, trace>>

\* Python's None: no str holds this character.
None == <<"None">>

(***************************************************************************)
(* Bounds of the model.                                                    *)
(***************************************************************************)
MaxNameLen == 2     \* typed filenames: every string of dots and spaces up to it
MaxRuns == 1        \* handler runs in one behaviour of Spec and SpecParse
MaxSaves == 2       \* review and conversion runs in one behaviour of SpecFiles
MaxSegs == 3        \* segments of a completion text given to the parser
MaxDetailSegs == 2  \* segments of an error detail given to the parser
MaxTurns == 3       \* chat messages submitted in one behaviour

(***************************************************************************)
(* Python str operations, computed as CPython computes them.               *)
(***************************************************************************)
IsSpace(c) == c \in {" ", "\n", "\t", "\r"}

endswith(s, suffix) ==
    /\ Len(suffix) <= Len(s)
    /\ SubSeq(s, Len(s) - Len(suffix) + 1, Len(s)) = suffix

\* str.find: the lowest index (from 1) at which sub starts in s, 0 when none.
RECURSIVE find_from(_, _, _)
find_from(s, sub, i) ==
    IF i + Len(sub) - 1 > Len(s) THEN 0
    ELSE IF SubSeq(s, i, i + Len(sub) - 1) = sub THEN i
    ELSE find_from(s, sub, i + 1)

find(s, sub) == find_from(s, sub, 1)

\* str.rfind: the highest such index, 0 when none.
RECURSIVE rfind_from(_, _, _)
rfind_from(s, sub, i) ==
    IF i < 1 THEN 0
    ELSE IF SubSeq(s, i, i + Len(sub) - 1) = sub THEN i
    ELSE rfind_from(s, sub, i - 1)

rfind(s, sub) == rfind_from(s, sub, Len(s) - Len(sub) + 1)

\* sub in s
contains(s, sub) == find(s, sub) # 0

RECURSIVE lstrip(_)
lstrip(s) ==
    IF s # <<>> /\ IsSpace(Head(s)) THEN lstrip(Tail(s)) ELSE s

RECURSIVE rstrip(_)
rstrip(s) ==
    IF s # <<>> /\ IsSpace(s[Len(s)]) THEN rstrip(SubSeq(s, 1, Len(s) - 1)) ELSE s

\* str.strip()
strip(s) == rstrip(lstrip(s))

\* s.rsplit(sep, 1) of an s that holds sep: a split at the last occurrence.
rsplit_once(s, sep) ==
    LET i == rfind(s, sep)
    IN <<SubSeq(s, 1, i - 1), SubSeq(s, i + Len(sep), Len(s))>>

\* s.split(sep, 1) of an s that holds sep: <<before, after>> the first occurrence.
split_once(s, sep) ==
    LET i == find(s, sep)
    IN <<SubSeq(s, 1, i - 1), SubSeq(s, i + Len(sep), Len(s))>>

\* os.path.splitext of a path without a directory separator: the extension
\* starts at the last dot, unless only dots come before that dot.
RECURSIVE splitext_from(_, _, _)
splitext_from(p, dotIndex, filenameIndex) ==
    IF filenameIndex >= dotIndex THEN <<p, <<>>>>
    ELSE IF p[filenameIndex] # "."
         THEN <<SubSeq(p, 1, dotIndex - 1), SubSeq(p, dotIndex, Len(p))>>
    ELSE splitext_from(p, dotIndex, filenameIndex + 1)

splitext(p) ==
    LET dotIndex == rfind(p, <<".">>)
    IN IF dotIndex > 0 THEN splitext_from(p, dotIndex, 1) ELSE <<p, <<>>>>

(***************************************************************************)
(* Literals of the program.                                                *)
(***************************************************************************)
EXTENSIONS ==
    [l \in {"Python", "C", "C++", "Java", "JavaScript"} |->
        CASE l = "Python" -> <<".", "p", "y">>
          [] l = "C" -> <<".", "c">>
          [] l = "C++" -> <<".", "c", "p", "p">>
          [] l = "Java" -> <<".", "j", "a", "v", "a">>
          [] l = "JavaScript" -> <<".", "j", "s">>]

languages == DOMAIN EXTENSIONS

\* EXTENSIONS.values()
ExtensionValues == {EXTENSIONS[l] : l \in languages}

\* EXTENSIONS.get(language, ".txt")
extension_of(language) ==
    IF language \in DOMAIN EXTENSIONS THEN EXTENSIONS[language]
    ELSE <<".", "t", "x", "t">>

\* "Formatted Code:"
Marker ==
    <<"F", "o", "r", "m", "a", "t", "t", "e", "d", " ", "C", "o", "d", "e", ":">>

\* "<U+274C> Connection error:\n"
ErrPrefix ==
    <<"U+274C", " ", "C", "o", "n", "n", "e", "c", "t", "i", "o", "n", " ",
      "e", "r", "r", "o", "r", ":", "\n">>

\* "my_code"
DefaultBase == <<"m", "y", "_", "c", "o", "d", "e">>

Optimized == <<"o", "p", "t", "i", "m", "i", "z", "e", "d">>
Converted == <<"c", "o", "n", "v", "e", "r", "t", "e", "d">>
DotTxt == <<".", "t", "x", "t">>

(***************************************************************************)
(* The remote completion service.  One call ends in one outcome: a text,   *)
(* or an exception carrying a detail.  The prompt does not decide the      *)
(* outcome, so the source code pasted by the user, which only reaches the  *)
(* prompts, is left out of the state.                                      *)
(***************************************************************************)
Ok(text) == [kind |-> "ok", text |-> text]
Fail(detail) == [kind |-> "fail", detail |-> detail]

\* ask_llm without its except clause: the exception leaves the function.
ask_llm_no_except(outcome) ==
    IF outcome.kind = "ok"
    THEN [raised |-> FALSE, value |-> outcome.text]
    ELSE [raised |-> TRUE, value |-> None]

\* ask_llm returning the bare detail, without the failure marker.
ask_llm_bare_detail(outcome) ==
    IF outcome.kind = "ok"
    THEN [raised |-> FALSE, value |-> outcome.text]
    ELSE [raised |-> FALSE, value |-> outcome.detail]

ask_llm(outcome) ==
    IF outcome.kind = "ok"
    THEN [raised |-> FALSE, value |-> outcome.text]
    ELSE [raised |-> FALSE, value |-> ErrPrefix \o outcome.detail]

Call(purpose, outcome, r) ==
    [purpose |-> purpose, outcome |-> outcome, raised |-> r.raised, value |-> r.value]

\* The split of review_code taken at the last occurrence of the marker.
split_review_last(result) ==
    IF contains(result, Marker) THEN rsplit_once(result, Marker)
    ELSE <<result, <<>>>>

\* src/app.py lines 67-71
split_review(result) ==
    IF contains(result, Marker) THEN split_once(result, Marker)
    ELSE <<result, <<>>>>

\* The final strips of review_code with the leading whitespace kept.
strip_review_right_only(parts) == <<rstrip(parts[1]), rstrip(parts[2])>>

\* src/app.py line 72
strip_review(parts) == <<strip(parts[1]), strip(parts[2])>>

review_code(outcome) ==
    LET r == ask_llm(outcome)
        parts == strip_review(split_review(r.value))
    IN IF r.raised
       THEN [raised |-> TRUE, calls |-> <<Call("review", outcome, r)>>]
       ELSE [raised |-> FALSE, calls |-> <<Call("review", outcome, r)>>,
             review_text |-> parts[1], formatted |-> parts[2]]

convert_code(outcome) ==
    LET r == ask_llm(outcome)
    IN [raised |-> r.raised, calls |-> <<Call("convert", outcome, r)>>,
        converted_code |-> r.value]

generate_filename(language, suffix, outcome) ==
    LET r == ask_llm(outcome)
        stripped == strip(r.value)
        suggested_name == IF stripped = <<>> THEN DefaultBase ELSE stripped
    IN IF r.raised
       THEN [raised |-> TRUE, calls |-> <<Call("filename", outcome, r)>>]
       ELSE [raised |-> FALSE, calls |-> <<Call("filename", outcome, r)>>,
             filename |-> suggested_name \o <<"_">> \o suffix \o extension_of(language)]

\* The extension test made against the selected language's extension alone.
with_extension_own_only(filename, language) ==
    IF endswith(filename, extension_of(language)) THEN filename
    ELSE filename \o extension_of(language)

\* src/app.py lines 193-194 and 225-226, filename being the stripped name
with_extension(filename, language) ==
    IF \E ext \in ExtensionValues : endswith(filename, ext) THEN filename
    ELSE filename \o extension_of(language)

\* open(filename, "w").write(text): the file holds text and nothing else
write_file(files, filename, text) ==
    [p \in DOMAIN files \cup {filename} |-> IF p = filename THEN text ELSE files[p]]

save_file(files, text, filename) ==
    LET name == splitext(filename)[1]
        ext == splitext(filename)[2]
        path == IF ext = <<>> THEN name \o DotTxt ELSE filename
    IN [path |-> path, files |-> write_file(files, path, text),
        text |-> text, filename |-> filename]

\* chat_fn appending the reply before the message.
chat_fn_reply_first(message, history, outcome) ==
    LET r == ask_llm(outcome)
        h == IF history = None \/ history = <<>> THEN <<>> ELSE history
    IN [raised |-> r.raised, calls |-> <<Call("chat", outcome, r)>>,
        msg |-> <<>>,
        history |-> h \o <<[role |-> "assistant", content |-> r.value],
                           [role |-> "user", content |-> message]>>]

chat_fn(message, history, outcome) ==
    LET r == ask_llm(outcome)
        h == IF history = None \/ history = <<>> THEN <<>> ELSE history
    IN [raised |-> r.raised, calls |-> <<Call("chat", outcome, r)>>,
        msg |-> <<>>,
        history |-> h \o <<[role |-> "user", content |-> message],
                           [role |-> "assistant", content |-> r.value]>>]

\* select_card marking the chatbot card whatever the card clicked.
select_card_stuck(card_name) ==
    << "feature-card" \o (IF card_name = "analysis" THEN " selected" ELSE ""),
       "feature-card" \o (IF card_name = "converter" THEN " selected" ELSE ""),
       "feature-card" \o " selected" >>

select_card(card_name) ==
    << "feature-card" \o (IF card_name = "analysis" THEN " selected" ELSE ""),
       "feature-card" \o (IF card_name = "converter" THEN " selected" ELSE ""),
       "feature-card" \o (IF card_name = "chatbot" THEN " selected" ELSE "") >>

(***************************************************************************)
(* The two save handlers, as functions of the working directory, the       *)
(* component values and the outcomes of the completion calls they make.    *)
(* o2 is read only when the typed name is empty after stripping.  The      *)
(* source language of a conversion only reaches the prompt.                *)
(***************************************************************************)
analyze_prepare(files, lang, user_filename, o1, o2) ==
    LET rc == review_code(o1)
        typed == strip(user_filename) # <<>>
        g == generate_filename(lang, Optimized, o2)
        filename == IF typed THEN with_extension(strip(user_filename), lang)
                    ELSE g.filename
        sv == save_file(files, rc.formatted, filename)
        made == IF typed THEN rc.calls ELSE rc.calls \o g.calls
    IN IF rc.raised THEN [raised |-> TRUE, calls |-> rc.calls]
       ELSE IF ~typed /\ g.raised THEN [raised |-> TRUE, calls |-> made]
       ELSE [raised |-> FALSE, calls |-> made, saved |-> sv,
             review_text |-> rc.review_text, formatted |-> rc.formatted,
             filename |-> filename, file_path |-> sv.path]

convert_prepare(files, tgt_lang, user_filename, o1, o2) ==
    LET cc == convert_code(o1)
        typed == strip(user_filename) # <<>>
        g == generate_filename(tgt_lang, Converted, o2)
        filename == IF typed THEN with_extension(strip(user_filename), tgt_lang)
                    ELSE g.filename
        sv == save_file(files, cc.converted_code, filename)
        made == IF typed THEN cc.calls ELSE cc.calls \o g.calls
    IN IF cc.raised THEN [raised |-> TRUE, calls |-> cc.calls]
       ELSE IF ~typed /\ g.raised THEN [raised |-> TRUE, calls |-> made]
       ELSE [raised |-> FALSE, calls |-> made, saved |-> sv,
             converted_code |-> cc.converted_code,
             filename |-> filename, file_path |-> sv.path]

(***************************************************************************)
(* Inputs.                                                                 *)
(***************************************************************************)
RECURSIVE Concats(_, _)
Concats(pieces, n) ==
    IF n = 0 THEN {<<>>}
    ELSE LET shorter == Concats(pieces, n - 1)
         IN shorter \cup {t \o p : t \in shorter, p \in pieces}

\* Typed names: blank and dot-only names of every shape, and ordinary ones.
NameChars == {<<".">>, <<" ">>}
SampleNames ==
    { <<"d", "e", "m", "o">>,
      <<"d", "e", "m", "o", ".", "j", "s">>,
      <<".", "p", "y">>,
      <<" ", "d", "e", "m", "o">>,
      <<"d", "e", "m", "o", ".", "c", " ">> }
Names == Concats(NameChars, MaxNameLen) \cup SampleNames

SampleCode == <<"x", "=", "1">>
SampleReview == <<"-", " ", "a", "\n">> \o Marker \o <<"\n">> \o SampleCode
SampleDetail == <<"t", "i", "m", "e", "o", "u", "t">>
CoreOuts == {Ok(SampleReview), Fail(SampleDetail)}
SuggestOuts == {Ok(<<"a", "p", "p", "\n">>), Ok(<<" ", "\n">>), Fail(SampleDetail)}
NoOutcome == Ok(<<>>)

\* Completion texts and error details for the parser: runs of segments, among
\* them the marker, whole and cut short.
Segments == {<<" ">>, <<"a">>, Marker, SubSeq(Marker, 1, 10)}
Texts == Concats(Segments, MaxSegs)
Details == Concats(Segments, MaxDetailSegs)
ParseOuts == {Ok(t) : t \in Texts} \cup {Fail(d) : d \in Details}
ParseName == <<"d", "e", "m", "o">>

Messages == {<<"h", "i">>, <<"?">>}
ChatOuts == {Ok(SampleCode), Fail(SampleDetail)}

(***************************************************************************)
(* The state after construction.  The history a first chat turn receives   *)
(* is None or the empty list.                                              *)
(***************************************************************************)
InitWith(history) ==
    /\ home_page = TRUE
    /\ analysis_page = FALSE
    /\ converter_page = FALSE
    /\ chatbot_page = FALSE
    /\ analysis_card = ""
    /\ converter_card = ""
    /\ chatbot_card = ""
    /\ chatbot = history
    /\ msg = <<>>
    /\ turns = <<>>
    /\ review_output = <<>>
    /\ formatted_output = <<>>
    /\ filename_edit = <<>>
    /\ download_btn = None
    /\ converted = <<>>
    /\ filename_edit2 = <<>>
    /\ download_btn2 = None
    /\ fs = <<>>
    /\ handler = ""
    /\ inputs = None
    /\ calls = <<>>
    /\ saved = None
    /\ raised = FALSE
    /\ runs = 0

Init == InitWith(None)

InitShell == \E history \in {None, <<>>} : InitWith(history)

(***************************************************************************)
(* The event handlers.  A handler that raises leaves its outputs as they   *)
(* were.                                                                   *)
(***************************************************************************)
\* review_btn.click(analyze_prepare, ...)
AnalyzeClick(names, langs, outs, limit) ==
    /\ runs < limit
    /\ \E lang \in langs, user_filename \in names, o1 \in outs :
       \E o2 \in (IF strip(user_filename) = <<>> THEN SuggestOuts ELSE {NoOutcome}) :
       \E res \in {analyze_prepare(fs, lang, user_filename, o1, o2)} :
          /\ handler' = "analyze_prepare"
          /\ inputs' = [lang |-> lang, user_filename |-> user_filename]
          /\ calls' = res.calls
          /\ raised' = res.raised
          /\ IF res.raised
             THEN /\ saved' = None
                  /\ UNCHANGED <<review_output, formatted_output, filename_edit,
                                 download_btn, fs>>
             ELSE /\ saved' = res.saved
                  /\ review_output' = res.review_text
                  /\ formatted_output' = res.formatted
                  /\ filename_edit' = res.filename
                  /\ download_btn' = res.file_path
                  /\ fs' = res.saved.files
    /\ runs' = runs + 1
    /\ UNCHANGED <<pages, cards, chat, converted, filename_edit2, download_btn2>>

\* convert_btn2.click(convert_prepare, ...)
ConvertClick(names, langs, outs, limit) ==
    /\ runs < limit
    /\ \E tgt_lang \in langs, user_filename \in names, o1 \in outs :
       \E o2 \in (IF strip(user_filename) = <<>> THEN SuggestOuts ELSE {NoOutcome}) :
       \E res \in {convert_prepare(fs, tgt_lang, user_filename, o1, o2)} :
          /\ handler' = "convert_prepare"
          /\ inputs' = [lang |-> tgt_lang, user_filename |-> user_filename]
          /\ calls' = res.calls
          /\ raised' = res.raised
          /\ IF res.raised
             THEN /\ saved' = None
                  /\ UNCHANGED <<converted, filename_edit2, download_btn2, fs>>
             ELSE /\ saved' = res.saved
                  /\ converted' = res.converted_code
                  /\ filename_edit2' = res.filename
                  /\ download_btn2' = res.file_path
                  /\ fs' = res.saved.files
    /\ runs' = runs + 1
    /\ UNCHANGED <<pages, cards, chat, review_output, formatted_output, filename_edit,
                   download_btn>>

\* msg.submit(chat_fn, [msg, chatbot], [msg, chatbot])
ChatSubmit(limit) ==
    /\ runs < limit
    /\ \E message \in Messages, o \in ChatOuts :
       \E res \in {chat_fn(message, chatbot, o)} :
          /\ handler' = "chat_fn"
          /\ inputs' = [message |-> message, history |-> chatbot]
          /\ calls' = res.calls
          /\ raised' = res.raised
          /\ turns' = Append(turns, [message |-> message, outcome |-> o])
          /\ IF res.raised THEN UNCHANGED <<chatbot, msg>>
             ELSE msg' = res.msg /\ chatbot' = res.history
    /\ saved' = None
    /\ runs' = runs + 1
    /\ UNCHANGED <<pages, cards, outputs, fs>>

\* The seven outputs of a navigation lambda: four visible flags, three classes.
Navigate(click, home, analysis, converter, chatbotp, classes) ==
    /\ handler' = click
    /\ inputs' = None
    /\ calls' = <<>>
    /\ saved' = None
    /\ raised' = FALSE
    /\ home_page' = home
    /\ analysis_page' = analysis
    /\ converter_page' = converter
    /\ chatbot_page' = chatbotp
    /\ analysis_card' = classes[1]
    /\ converter_card' = classes[2]
    /\ chatbot_card' = classes[3]
    /\ UNCHANGED <<chat, outputs, fs, runs>>

analysis_card_click == Navigate("analysis_card.click", FALSE, TRUE, FALSE, FALSE, select_card("analysis"))

converter_card_click == Navigate("converter_card.click", FALSE, FALSE, TRUE, FALSE, select_card("converter"))

chatbot_card_click == Navigate("chatbot_card.click", FALSE, FALSE, FALSE, TRUE, select_card("chatbot"))

back1_click == Navigate("back1.click", TRUE, FALSE, FALSE, FALSE, select_card("None"))

back2_click == Navigate("back2.click", TRUE, FALSE, FALSE, FALSE, select_card("None"))

back3_click == Navigate("back3.click", TRUE, FALSE, FALSE, FALSE, select_card("None"))

(***************************************************************************)
(* Specifications.                                                         *)
(*   Spec       every handler that calls the completion client, over every *)
(*              typed name and language, MaxRuns runs.                     *)
(*   SpecFiles  the two save handlers over a working directory that keeps  *)
(*              its files from one run to the next, MaxSaves runs.         *)
(*   SpecParse  the review handler over the completion texts and error     *)
(*              details, saved under one name.                             *)
(*   SpecShell  the navigation and the chat, MaxTurns chat turns.          *)
(***************************************************************************)
review_btn_click == AnalyzeClick(Names, languages, CoreOuts, MaxRuns)

convert_btn2_click == ConvertClick(Names, languages, CoreOuts, MaxRuns)

msg_submit_once == ChatSubmit(MaxRuns)

Next == review_btn_click \/ convert_btn2_click \/ msg_submit_once

Spec == Init /\ [][Next]_vars

review_and_keep == AnalyzeClick(Names, languages, CoreOuts, MaxSaves)

convert_and_keep == ConvertClick(Names, languages, CoreOuts, MaxSaves)

NextFiles == review_and_keep \/ convert_and_keep

SpecFiles == Init /\ [][NextFiles]_vars

review_any_text == AnalyzeClick({ParseName}, {"Python"}, ParseOuts, MaxRuns)

NextParse == review_any_text

SpecParse == Init /\ [][NextParse]_vars

msg_submit == ChatSubmit(MaxTurns)

NextShell ==
    \/ analysis_card_click
    \/ converter_card_click
    \/ chatbot_card_click
    \/ back1_click
    \/ back2_click
    \/ back3_click
    \/ msg_submit

SpecShell == InitShell /\ [][NextShell]_vars

(***************************************************************************)
(* Vocabulary of the properties, stated without the program's functions.   *)
(***************************************************************************)
MarkerAt(s, i) ==
    /\ i >= 1
    /\ i + Len(Marker) - 1 <= Len(s)
    /\ \A k \in 1..Len(Marker) : s[i + k - 1] = Marker[k]

Occurrences(s) == {i \in 1..Len(s) : MarkerAt(s, i)}

MarkerFree(s) == Occurrences(s) = {}

Before(s, i) == SubSeq(s, 1, i - 1)
After(s, i) == SubSeq(s, i + Len(Marker), Len(s))

Space(c) == c \in {" ", "\n", "\t", "\r"}

\* t is s without its leading and trailing whitespace.
IsTrimOf(t, s) ==
    \E i \in 0..Len(s), j \in 0..Len(s) :
        /\ i + j <= Len(s)
        /\ t = SubSeq(s, i + 1, Len(s) - j)
        /\ \A k \in 1..i : Space(s[k])
        /\ \A k \in (Len(s) - j + 1)..Len(s) : Space(s[k])
        /\ t # <<>> => ~Space(t[1]) /\ ~Space(t[Len(t)])

Substrings(s) == {SubSeq(s, i, j) : i \in 1..(Len(s) + 1), j \in 0..Len(s)}

Blank(s) == \A k \in 1..Len(s) : Space(s[k])

EndsWith(s, e) ==
    /\ Len(e) <= Len(s)
    /\ \A k \in 1..Len(e) : s[Len(s) - Len(e) + k] = e[k]

KnownExtension(s) == \E l \in languages : EndsWith(s, EXTENSIONS[l])

Reviewed == handler = "analyze_prepare" /\ ~raised
ConvertedRun == handler = "convert_prepare" /\ ~raised
SaveRun == Reviewed \/ ConvertedRun

\* What the completion client hands back for an outcome, per its contract.
Reply(outcome) ==
    IF outcome.kind = "ok" THEN outcome.text ELSE ErrPrefix \o outcome.detail

(***************************************************************************)
(* C1: a completion call that fails does not raise: ask_llm returns the    *)
(* failure marker followed by the error detail, and the handler that made  *)
(* the call ends without an unhandled exception.                           *)
(***************************************************************************)
C1_AskLlmFailsSoft ==
    /\ ~raised
    /\ \A k \in 1..Len(calls) :
          calls[k].outcome.kind = "fail" =>
             /\ ~calls[k].raised
             /\ Len(calls[k].value) = Len(ErrPrefix) + Len(calls[k].outcome.detail)
             /\ SubSeq(calls[k].value, 1, Len(ErrPrefix)) = ErrPrefix
             /\ SubSeq(calls[k].value, Len(ErrPrefix) + 1, Len(calls[k].value))
                   = calls[k].outcome.detail

\* A review whose filename suggestion failed after its review call succeeded.
C1_Witness ==
    /\ handler = "analyze_prepare"
    /\ Len(calls) = 2
    /\ calls[1].outcome.kind = "ok"
    /\ calls[2].outcome.kind = "fail"
    /\ calls[2].purpose = "filename"

\* The text a review parsed: what its completion call returned.
Raw == calls[1].value

FirstOccurrence(s, i) == MarkerAt(s, i) /\ \A j \in 1..(i - 1) : ~MarkerAt(s, j)

(***************************************************************************)
(* C2, as amended: the review parser splits at the first occurrence of     *)
(* the marker.  With the marker present, analysisText is the text before   *)
(* the first occurrence, trimmed, and formattedCode the text after it,     *)
(* trimmed, later occurrences included; with no marker, analysisText is    *)
(* the whole text, trimmed, and formattedCode is empty.                    *)
(***************************************************************************)
C2_ParseSplitsAtFirstMarker ==
    Reviewed =>
        IF MarkerFree(Raw)
        THEN IsTrimOf(review_output, Raw) /\ formatted_output = <<>>
        ELSE \E i \in Occurrences(Raw) :
                /\ FirstOccurrence(Raw, i)
                /\ IsTrimOf(review_output, Before(Raw, i))
                /\ IsTrimOf(formatted_output, After(Raw, i))

\* C2 as first stated: with no marker the entire raw text, untrimmed, is
\* analysisText.
C2_Original ==
    Reviewed =>
        IF MarkerFree(Raw)
        THEN review_output = Raw /\ formatted_output = <<>>
        ELSE \E i \in Occurrences(Raw) :
                /\ FirstOccurrence(Raw, i)
                /\ IsTrimOf(review_output, Before(Raw, i))
                /\ IsTrimOf(formatted_output, After(Raw, i))

\* A reviewed text with two markers, the second kept in formattedCode, and
\* whitespace trimmed off the text before the first.
C2_Witness ==
    /\ Reviewed
    /\ Cardinality(Occurrences(Raw)) = 2
    /\ ~MarkerFree(formatted_output)
    /\ review_output # <<>>
    /\ \E i \in Occurrences(Raw) : Len(review_output) < Len(Before(Raw, i))

(***************************************************************************)
(* C7: the analysisText of a review never holds the marker, and parsing    *)
(* it again gives the same analysisText and an empty formattedCode.        *)
(***************************************************************************)
C7_AnalysisHoldsNoMarker ==
    Reviewed =>
        /\ MarkerFree(review_output)
        /\ strip_review(split_review(review_output)) = <<review_output, <<>>>>

\* A text whose marker follows a cut-short marker and a space: the trimmed
\* text before the split ends in "Formatted".
C7_Witness ==
    /\ Reviewed
    /\ ~MarkerFree(Raw)
    /\ EndsWith(review_output, SubSeq(Marker, 1, 9))
    /\ \E i \in Occurrences(Raw) : Len(review_output) < Len(Before(Raw, i))

(***************************************************************************)
(* C8, as amended: when the completion call of a review fails with a       *)
(* detail that does not hold the marker, the error string does not hold    *)
(* it either: analysisText is the error string, trimmed, and formattedCode *)
(* is empty.                                                               *)
(***************************************************************************)
C8_ErrorFlowsIntoAnalysis ==
    (Reviewed /\ calls[1].outcome.kind = "fail"
              /\ MarkerFree(calls[1].outcome.detail)) =>
        /\ MarkerFree(Raw)
        /\ IsTrimOf(review_output, ErrPrefix \o calls[1].outcome.detail)
        /\ formatted_output = <<>>

\* C8 as first stated: for every error detail the error string holds no
\* marker, the whole of it is analysisText, and formattedCode is empty.
C8_Original ==
    (Reviewed /\ calls[1].outcome.kind = "fail") =>
        /\ MarkerFree(Raw)
        /\ review_output = Raw
        /\ formatted_output = <<>>

\* A failed review whose detail holds a cut-short marker and no whole one.
C8_Witness ==
    /\ Reviewed
    /\ calls[1].outcome.kind = "fail"
    /\ MarkerFree(calls[1].outcome.detail)
    /\ EndsWith(calls[1].outcome.detail, SubSeq(Marker, 1, 10))
    /\ formatted_output = <<>>

\* The name, language and purpose suffix of the last save handler's run, the
\* filename it resolved (the one it hands to save_file) and the one it shows.
TypedName == inputs.user_filename
Language == inputs.lang
Suffix == IF handler = "analyze_prepare" THEN Optimized ELSE Converted
Resolved == saved.filename
Shown == IF handler = "analyze_prepare" THEN filename_edit ELSE filename_edit2
Download == IF handler = "analyze_prepare" THEN download_btn ELSE download_btn2
Suggested == {k \in 1..Len(calls) : calls[k].purpose = "filename"}

(***************************************************************************)
(* C3, as amended: for a typed name N that is not empty after trimming     *)
(* and a language L, with T the trimmed N: the resolved filename is T when *)
(* T ends with the extension of any supported language, and T followed by  *)
(* the extension of L otherwise; no filename suggestion is requested.      *)
(***************************************************************************)
C3_TypedNameResolved ==
    (SaveRun /\ ~Blank(TypedName)) =>
        /\ \E T \in Substrings(TypedName) :
              /\ IsTrimOf(T, TypedName)
              /\ Resolved = IF KnownExtension(T) THEN T ELSE T \o EXTENSIONS[Language]
        /\ Shown = Resolved
        /\ Suggested = {}

\* C3 as first stated: the typed name itself, untrimmed, is kept or extended.
C3_Original ==
    (SaveRun /\ ~Blank(TypedName)) =>
        /\ Resolved = IF KnownExtension(TypedName) THEN TypedName
                      ELSE TypedName \o EXTENSIONS[Language]
        /\ Suggested = {}

\* A padded name that, trimmed, ends with the extension of another language
\* than the selected one, and is resolved to the trimmed name.
C3_Witness ==
    /\ SaveRun
    /\ ~Blank(TypedName)
    /\ Resolved # TypedName
    /\ IsTrimOf(Resolved, TypedName)
    /\ KnownExtension(Resolved)
    /\ ~EndsWith(Resolved, EXTENSIONS[Language])

(***************************************************************************)
(* C4: with a typed name that is empty after trimming, the filename is     *)
(* the suggested candidate, or the default base name when the candidate is *)
(* empty or is the error string of a failed completion call, followed by   *)
(* "_", the purpose suffix and the extension of the language.              *)
(***************************************************************************)
C4_GeneratedNameFallsBack ==
    (SaveRun /\ Blank(TypedName)) =>
        /\ Suggested = {2}
        /\ \E cand \in Substrings(calls[2].value) :
              /\ IsTrimOf(cand, calls[2].value)
              /\ Resolved =
                    (IF cand = <<>> \/ calls[2].outcome.kind = "fail"
                     THEN DefaultBase ELSE cand)
                    \o <<"_">> \o Suffix \o EXTENSIONS[Language]

(***************************************************************************)
(* C9: the filename a completed review or conversion shows in the filename *)
(* box is the path at which the persister wrote the file.                  *)
(***************************************************************************)
C9_ShownNameIsSavedPath ==
    SaveRun =>
        /\ Shown = saved.path
        /\ Download = saved.path
        /\ saved.path \in DOMAIN fs

(***************************************************************************)
(* C6: for a typed name N with no extension and a target language L, a     *)
(* conversion persists a file at N followed by the extension of L, the     *)
(* persister returns that path, and the file holds exactly the content     *)
(* handed to the persister.  N is taken free of surrounding whitespace.    *)
(***************************************************************************)
C6_ConversionPersistsAtNamePlusExtension ==
    (ConvertedRun /\ ~Blank(TypedName) /\ IsTrimOf(TypedName, TypedName)
                  /\ splitext(TypedName)[2] = <<>>) =>
        /\ saved.path = TypedName \o EXTENSIONS[Language]
        /\ saved.path \in DOMAIN fs
        /\ fs[saved.path] = saved.text
        /\ saved.text = converted

\* The chat history as a list: an absent history holds no entry.
History == IF chatbot = None THEN <<>> ELSE chatbot

IsPrefix(h, g) == Len(h) <= Len(g) /\ \A k \in 1..Len(h) : g[k] = h[k]

\* The history pairs each submitted message with the reply to it, in order.
C5_HistoryAlternates ==
    /\ Len(History) = 2 * Len(turns)
    /\ \A k \in 1..Len(turns) :
          /\ History[2 * k - 1] = [role |-> "user", content |-> turns[k].message]
          /\ History[2 * k] = [role |-> "assistant", content |-> Reply(turns[k].outcome)]

\* A step leaves the history it found as a prefix of the new one.
C5_AppendOnly == [][IsPrefix(History, History')]_vars

(***************************************************************************)
(* C5: after n submitted chat messages the history holds 2n entries,       *)
(* oldest first: entry 2k-1 is the k-th user message and entry 2k the      *)
(* reply obtained for it, the error string when the completion call        *)
(* failed; and a chat turn only appends to the history.                    *)
(***************************************************************************)
C5_ChatHistory == []C5_HistoryAlternates /\ C5_AppendOnly

\* Two turns, the first answered by the error string, the second by a text.
C5_Witness ==
    /\ Len(turns) = 2
    /\ Len(History) = 4
    /\ turns[1].outcome.kind = "fail"
    /\ turns[2].outcome.kind = "ok"
    /\ handler = "chat_fn"

VisiblePages == {k \in 1..4 : pages[k]}

Selected(classes) == classes = "feature-card selected"

SelectedCards == {k \in 1..3 : Selected(cards[k])}

(***************************************************************************)
(* C10: after any navigation clicks exactly one of the four pages is       *)
(* visible and at most one card carries the "selected" class; after a back *)
(* click the home page is the visible one and no card is selected.         *)
(***************************************************************************)
C10_OnePageOneCard ==
    /\ Cardinality(VisiblePages) = 1
    /\ Cardinality(SelectedCards) <= 1
    /\ handler \in {"back1.click", "back2.click", "back3.click"} =>
          home_page /\ SelectedCards = {}

\* The converter page open with its card selected, a chat turn behind it.
C10_Witness ==
    /\ handler = "converter_card.click"
    /\ converter_page
    /\ SelectedCards = {2}
    /\ Len(turns) > 0

====
